---- MODULE Spec2Model ----
(***************************************************************************)
(* scripts/update-data.py: two fetch-then-patch pipelines (currency rates, *)
(* bond yield) that rewrite an embedded assignment and a "last updated"    *)
(* holder in two HTML files, and a driver that sequences them and reports. *)
(*                                                                         *)
(* Text is a sequence of tokens.  Every literal the three regular          *)
(* expressions mention is one token, and every other token is text that    *)
(* holds none of the characters the expressions test for:                  *)
(*   K    const CURRENT = {                                                *)
(*   C    };                 B    a } that no ; follows                    *)
(*   H    <span ... id="lastUpdated" ...>        E    </span>              *)
(*   Y    const CURRENT_YIELD =                                            *)
(*   0..9 . - ;   single characters (bond artifact)                        *)
(*   x    any other text (for instance "USD: 1.0,")                        *)
(*   nl , ind line ts   text the patchers generate: a newline, a comma,    *)
(*        the closing line's indentation, "            CODE: value", and   *)
(*        the formatted time stamp.                                        *)
(***************************************************************************)
EXTENDS Integers, Sequences, FiniteSets, TLC

\* pc                  the driver's position; after a direct patcher call, the
\*                     patcher called last
\* rates, yld          the driver's variables (the arguments of the last call)
\* currency_file, bond_file   the two artifacts on disk
\* content0, content   the last patcher call's local "content" as read (lines 44,
\*                     70) and after the first substitution (lines 51, 71-75)
\* cur_ret, bond_ret   how the last call of each patcher ended
\* summary, exit_code  the two summary lines printed, the exit status (-1: running)
\* clock               the minute datetime.now() returned last
\* ncalls              number of direct patcher calls made
VARIABLES pc, rates, yld, currency_success, bond_success,
          currency_file, bond_file, content0, content, cur_ret, bond_ret,
          summary, exit_code, clock, ncalls

vars == <<pc, rates, yld, currency_success, bond_success,
          currency_file, bond_file, content0, content, cur_ret, bond_ret,
          summary, exit_code, clock, ncalls>>

(* ------------------------------ bounds --------------------------------- *)

\* Longest artifact text (in tokens) the patcher-level specifications start from.
MaxLen == 5
\* Number of distinct minutes the clock can show.
MaxClock == 2
\* Number of successive patcher calls in the patcher-level specifications.
MaxCalls == 2

(* ------------------------------ values --------------------------------- *)

CURRENCIES == <<"EUR", "GBP", "JPY", "CNY", "CHF", "AUD", "CAD", "MXN">>

Codes == {CURRENCIES[i] : i \in 1..Len(CURRENCIES)}

\* A fetcher's result: a number, or None.  Rates count millionths (round(.., 6)),
\* yields count hundredths (round(.., 2)).
None == [ok |-> FALSE, v |-> 0]

Some(n) == [ok |-> TRUE, v |-> n]

\* Python truthiness of a fetcher's result ("if v", "if yld"): None and 0.0 are false.
Truthy(r) == r.ok /\ r.v # 0

\* What fetch_yahoo_currency can return for one code in the driver runs.
FetchedPrices == {None, Some(0), Some(1)}

\* What fetch_bundesbank_yield can return: None, 0.0, -0.25, 2.5, 10.0.
Yields == {-25, 250, 1000}

FetchedYields == {None, Some(0)} \cup {Some(y) : y \in Yields}

(* ------------------------------ text ----------------------------------- *)

Tok(t) == [t |-> t, c |-> "", v |-> 0]

LineTok(code, value) == [t |-> "line", c |-> code, v |-> value]

TsTok(now) == [t |-> "ts", c |-> "", v |-> now]

Missing == [exists |-> FALSE, text |-> <<>>]

File(s) == [exists |-> TRUE, text |-> s]

Min(S) == CHOOSE m \in S : \A n \in S : m <= n

\* The tokens holding the character "}", "<", and those made of [\d.] only.
HasBrace(tok) == tok.t \in {"B", "C"}

HasLt(tok) == tok.t \in {"H", "E"}

Digit == {"0", "1", "2", "3", "4", "5", "6", "7", "8", "9"}

IsNum(tok) == tok.t \in Digit \cup {"."}

(* ------------------------ regular expressions -------------------------- *)

\* The three patterns, matched at position i of s: the position of the match's last
\* token, or 0 when the pattern does not match there.
\*   "block"  const CURRENT = \{[^}]+\};
\*   "ts"     (<span[^>]*id="lastUpdated"[^>]*>)[^<]*(</span>)
\*   "yield"  const CURRENT_YIELD = [\d.]+;
BlockMatchEnd(s, i) ==
    IF s[i].t # "K" THEN 0
    ELSE LET stop == {j \in (i + 1)..Len(s) : HasBrace(s[j])}
         IN  IF stop = {} THEN 0
             ELSE IF s[Min(stop)].t = "C" /\ Min(stop) > i + 1 THEN Min(stop) ELSE 0

TsMatchEnd(s, i) ==
    IF s[i].t # "H" THEN 0
    ELSE LET stop == {j \in (i + 1)..Len(s) : HasLt(s[j])}
         IN  IF stop = {} THEN 0
             ELSE IF s[Min(stop)].t = "E" THEN Min(stop) ELSE 0

YieldMatchEnd(s, i) ==
    IF s[i].t # "Y" THEN 0
    ELSE LET stop == {j \in (i + 1)..Len(s) : ~IsNum(s[j])}
         IN  IF stop = {} THEN 0
             ELSE IF s[Min(stop)].t = ";" /\ Min(stop) > i + 1 THEN Min(stop) ELSE 0

MatchEnd(pat, s, i) ==
    CASE pat = "block" -> BlockMatchEnd(s, i)
      [] pat = "ts"    -> TsMatchEnd(s, i)
      [] pat = "yield" -> YieldMatchEnd(s, i)

\* The replacement template expanded for the match s[i..j]: the time stamp template
\* is \g<1>{ts}\2, the other two templates hold no group reference.
Expand(pat, repl, s, i, j) ==
    IF pat = "ts" THEN <<s[i]>> \o repl \o <<s[j]>> ELSE repl

\* re.sub(pattern, repl, string) with the default count: every non-overlapping
\* match, leftmost first, is replaced; the scan resumes after each match.
RECURSIVE SubFrom(_, _, _, _)
SubFrom(pat, repl, s, i) ==
    IF i > Len(s) THEN <<>>
    ELSE LET j == MatchEnd(pat, s, i)
         IN  IF j > 0 THEN Expand(pat, repl, s, i, j) \o SubFrom(pat, repl, s, j + 1)
             ELSE <<s[i]>> \o SubFrom(pat, repl, s, i + 1)

\* Mutant of re_sub: count=1, only the first match is replaced.
re_sub_first(pat, repl, s) ==
    LET starts == {i \in 1..Len(s) : MatchEnd(pat, s, i) > 0}
    IN  IF starts = {} THEN s
        ELSE SubSeq(s, 1, Min(starts) - 1)
             \o Expand(pat, repl, s, Min(starts), MatchEnd(pat, s, Min(starts)))
             \o SubSeq(s, MatchEnd(pat, s, Min(starts)) + 1, Len(s))

re_sub(pat, repl, s) == SubFrom(pat, repl, s, 1)

(* ----------------------------- formatting ------------------------------ *)

DigitChars == <<"0", "1", "2", "3", "4", "5", "6", "7", "8", "9">>

RECURSIVE Digits(_)
Digits(n) ==
    IF n < 10 THEN <<Tok(DigitChars[n + 1])>>
    ELSE Digits(n \div 10) \o <<Tok(DigitChars[(n % 10) + 1])>>

Abs(n) == IF n < 0 THEN -n ELSE n

\* f"{yld}" for a float that is h hundredths: the shortest repr, a sign, the integer
\* part, a point and one or two decimals (no exponent below 1e16).
FormatYield(h) ==
    LET a    == Abs(h)
        frac == IF a % 10 = 0 THEN Digits((a % 100) \div 10)
                ELSE Digits((a % 100) \div 10) \o Digits(a % 10)
    IN  (IF h < 0 THEN <<Tok("-")>> ELSE <<>>) \o Digits(a \div 100) \o <<Tok(".")>> \o frac

\* str.rstrip(",\n")
RECURSIVE rstrip(_)
rstrip(s) ==
    IF s # <<>> /\ s[Len(s)].t \in {",", "nl"} THEN rstrip(SubSeq(s, 1, Len(s) - 1)) ELSE s

\* Mutant of BlockLines: the lines follow the mapping's sorted keys.
SortedCodes == <<"AUD", "CAD", "CHF", "CNY", "EUR", "GBP", "JPY", "MXN">>

RECURSIVE BlockLinesSorted(_, _)
BlockLinesSorted(r, i) ==
    IF i > Len(SortedCodes) THEN <<>>
    ELSE (IF SortedCodes[i] \in DOMAIN r
          THEN <<LineTok(SortedCodes[i], r[SortedCodes[i]].v), Tok(","), Tok("nl")>>
          ELSE <<>>) \o BlockLinesSorted(r, i + 1)

\* Lines 46-48: one line per code of CURRENCIES[i..] that is a key of r.
RECURSIVE BlockLines(_, _)
BlockLines(r, i) ==
    IF i > Len(CURRENCIES) THEN <<>>
    ELSE (IF CURRENCIES[i] \in DOMAIN r
          THEN <<LineTok(CURRENCIES[i], r[CURRENCIES[i]].v), Tok(","), Tok("nl")>>
          ELSE <<>>) \o BlockLines(r, i + 1)

\* Mutant of BuildBlock: the closing "};" directly follows the stripped text.
BuildBlockNoClosingLine(r) ==
    rstrip(<<Tok("K"), Tok("nl")>> \o BlockLines(r, 1)) \o <<Tok("C")>>

\* Lines 45-49: the replacement block.
BuildBlock(r) ==
    rstrip(<<Tok("K"), Tok("nl")>> \o BlockLines(r, 1)) \o <<Tok("nl"), Tok("ind"), Tok("C")>>

\* Lines 53-59 and 77-83: the time stamp substitution.
StampSub(now, s) == re_sub("ts", <<TsTok(now)>>, s)

\* Line 51.
BlockSub(r, s) == re_sub("block", BuildBlock(r), s)

\* Lines 71-75: the replacement statement, and the substitution.
Statement(y) == <<Tok("Y")>> \o FormatYield(y) \o <<Tok(";")>>

YieldSub(y, s) == re_sub("yield", Statement(y), s)

(* ------------------------------ patchers ------------------------------- *)

\* Mutant of update_currency_html: no existence check, a missing file is created.
update_currency_html_create(r, now, io) ==
    /\ content0' = currency_file.text
    /\ content' = BlockSub(r, content0')
    /\ clock' = now
    /\ cur_ret' = "true"
    /\ currency_file' = File(StampSub(now, content'))

\* Mutant of update_currency_html: reports whether the block pattern was found.
update_currency_html_found(r, now, io) ==
    IF ~currency_file.exists
    THEN /\ cur_ret' = "false"
         /\ UNCHANGED <<currency_file, content0, content, clock>>
    ELSE /\ content0' = currency_file.text
         /\ content' = BlockSub(r, content0')
         /\ clock' = now
         /\ cur_ret' = IF content' = content0' THEN "false" ELSE "true"
         /\ currency_file' = File(StampSub(now, content'))

\* The minute a call can read: the last one read, or the next.
Minutes == {n \in {clock, clock + 1} : n <= MaxClock}

\* What the file system does to one call: nothing, read_text raises, write_text raises.
IO == {"ok", "read_error", "write_error"}

\* update_currency_html(rates) called at minute now: the file, the local content
\* after line 51, and the result ("true", "false", or "raise" for an exception).
update_currency_html(r, now, io) ==
    IF ~currency_file.exists
    THEN /\ cur_ret' = "false"
         /\ UNCHANGED <<currency_file, content0, content, clock>>
    ELSE IF io = "read_error"
    THEN /\ cur_ret' = "raise"
         /\ UNCHANGED <<currency_file, content0, content, clock>>
    ELSE /\ content0' = currency_file.text
         /\ content' = BlockSub(r, content0')
         /\ clock' = now
         /\ IF io = "write_error"
            THEN /\ cur_ret' = "raise"
                 /\ currency_file' \in {currency_file, File(<<>>)}
            ELSE /\ cur_ret' = "true"
                 /\ currency_file' = File(StampSub(now, content'))

\* update_bond_html(yld)
update_bond_html(y, now, io) ==
    IF ~bond_file.exists
    THEN /\ bond_ret' = "false"
         /\ UNCHANGED <<bond_file, content0, content, clock>>
    ELSE IF io = "read_error"
    THEN /\ bond_ret' = "raise"
         /\ UNCHANGED <<bond_file, content0, content, clock>>
    ELSE /\ content0' = bond_file.text
         /\ content' = YieldSub(y, content0')
         /\ clock' = now
         /\ IF io = "write_error"
            THEN /\ bond_ret' = "raise"
                 /\ bond_file' \in {bond_file, File(<<>>)}
            ELSE /\ bond_ret' = "true"
                 /\ bond_file' = File(StampSub(now, content'))

(* ------------------------------- driver -------------------------------- *)

Label(flag) == IF flag THEN "SUCCESS" ELSE "FAILED"

\* Artifacts the driver runs start from: absent, the documented shape (an old block
\* with a USD key, or an old statement, and the holder), one whose block is the
\* empty "const CURRENT = {};", which the block pattern does not match, and one
\* that holds neither a block nor a holder.
DriverCurrencyFiles ==
    { Missing,
      File(<<Tok("x"), Tok("K"), Tok("x"), Tok("C"), Tok("x"), Tok("H"), Tok("x"), Tok("E")>>),
      File(<<Tok("x"), Tok("K"), Tok("C"), Tok("H"), Tok("x"), Tok("E"), Tok("x")>>),
      File(<<Tok("x"), Tok("E")>>) }

DriverBondFiles ==
    { Missing,
      File(<<Tok("x"), Tok("Y"), Tok("2"), Tok("."), Tok("3"), Tok(";"), Tok("H"), Tok("x"), Tok("E")>>) }

Init ==
    /\ pc = "cur_fetch"
    /\ rates = <<>>
    /\ yld = None
    /\ currency_success = FALSE
    /\ bond_success = FALSE
    /\ currency_file \in DriverCurrencyFiles
    /\ bond_file \in DriverBondFiles
    /\ content0 = <<>>
    /\ content = <<>>
    /\ cur_ret = "none"
    /\ bond_ret = "none"
    /\ summary = <<>>
    /\ exit_code = -1
    /\ clock = 1
    /\ ncalls = 0

\* Line 97: one fetch per code, each returning a number or None.
CurFetch ==
    /\ pc = "cur_fetch"
    /\ \E f \in [Codes -> FetchedPrices] : rates' = f
    /\ pc' = "cur_filter"
    /\ UNCHANGED <<yld, currency_success, bond_success, currency_file, bond_file,
                   content0, content, cur_ret, bond_ret, summary, exit_code, clock, ncalls>>

\* Line 98: {k: v for k, v in rates.items() if v}
FilterRates(r) == [k \in {c \in DOMAIN r : Truthy(r[c])} |-> r[k]]

CurFilter ==
    /\ pc = "cur_filter"
    /\ rates' = FilterRates(rates)
    /\ pc' = "cur_patch"
    /\ UNCHANGED <<yld, currency_success, bond_success, currency_file, bond_file,
                   content0, content, cur_ret, bond_ret, summary, exit_code, clock, ncalls>>

\* Mutant of CurPatch: no try/except around the currency phase, an exception ends
\* the run with a traceback and status 1.
CurPatchUncaught ==
    /\ pc = "cur_patch"
    /\ IF DOMAIN rates # {}
       THEN /\ \E now \in Minutes, io \in IO : update_currency_html(rates, now, io)
            /\ currency_success' = IF cur_ret' = "true" THEN TRUE ELSE currency_success
       ELSE UNCHANGED <<currency_success, currency_file, content0, content, cur_ret, clock>>
    /\ IF cur_ret' = "raise"
       THEN pc' = "done" /\ exit_code' = 1
       ELSE pc' = "bond_fetch" /\ UNCHANGED exit_code
    /\ UNCHANGED <<rates, yld, bond_success, bond_file, bond_ret, summary, ncalls>>

\* Lines 99-106: patch when the mapping is not empty; an exception is caught and logged.
CurPatch ==
    /\ pc = "cur_patch"
    /\ IF DOMAIN rates # {}
       THEN /\ \E now \in Minutes, io \in IO : update_currency_html(rates, now, io)
            /\ currency_success' = IF cur_ret' = "true" THEN TRUE ELSE currency_success
       ELSE UNCHANGED <<currency_success, currency_file, content0, content, cur_ret, clock>>
    /\ pc' = "bond_fetch"
    /\ UNCHANGED <<rates, yld, bond_success, bond_file, bond_ret, summary, exit_code, ncalls>>

\* Line 111.
BondFetch ==
    /\ pc = "bond_fetch"
    /\ yld' \in FetchedYields
    /\ pc' = "bond_patch"
    /\ UNCHANGED <<rates, currency_success, bond_success, currency_file, bond_file,
                   content0, content, cur_ret, bond_ret, summary, exit_code, clock, ncalls>>

\* Lines 112-119.
BondPatch ==
    /\ pc = "bond_patch"
    /\ IF Truthy(yld)
       THEN /\ \E now \in Minutes, io \in IO : update_bond_html(yld.v, now, io)
            /\ bond_success' = IF bond_ret' = "true" THEN TRUE ELSE bond_success
       ELSE UNCHANGED <<bond_success, bond_file, content0, content, bond_ret, clock>>
    /\ pc' = "summary"
    /\ UNCHANGED <<rates, yld, currency_success, currency_file, cur_ret, summary,
                   exit_code, ncalls>>

\* Lines 121-125.
Summary ==
    /\ pc = "summary"
    /\ summary' = <<Label(currency_success), Label(bond_success)>>
    /\ pc' = "exit"
    /\ UNCHANGED <<rates, yld, currency_success, bond_success, currency_file, bond_file,
                   content0, content, cur_ret, bond_ret, exit_code, clock, ncalls>>

\* Mutant of ExitStatus: "or" for "and" in line 127.
ExitStatusEither(cs, bs) == IF ~cs \/ ~bs THEN 1 ELSE 0

\* Lines 127-133: sys.exit(1) when both failed, else the script ends (status 0).
ExitStatus(cs, bs) == IF ~cs /\ ~bs THEN 1 ELSE 0

Exit ==
    /\ pc = "exit"
    /\ exit_code' = ExitStatus(currency_success, bond_success)
    /\ pc' = "done"
    /\ UNCHANGED <<rates, yld, currency_success, bond_success, currency_file, bond_file,
                   content0, content, cur_ret, bond_ret, summary, clock, ncalls>>

Next == CurFetch \/ CurFilter \/ CurPatch \/ BondFetch \/ BondPatch \/ Summary \/ Exit

Spec == Init /\ [][Next]_vars

(* --------------------------- driver properties ------------------------- *)

CurrencyPhase == {"cur_fetch", "cur_filter", "cur_patch"}

BondPhase == {"bond_fetch", "bond_patch"}

\* The patcher is called in this step (the mapping, or the yield, is truthy).
CurrencyCall == pc = "cur_patch" /\ DOMAIN rates # {}

BondCall == pc = "bond_patch" /\ Truthy(yld)

\* C1: when the run ends, the exit status is 1 exactly when both success flags are
\* false, and 0 in every other combination; no status is set before the end.
C1_ExitStatus ==
    /\ pc = "done" => /\ exit_code \in {0, 1}
                      /\ exit_code = 1 <=> (~currency_success /\ ~bond_success)
                      /\ exit_code = 0 <=> (currency_success \/ bond_success)
    /\ pc # "done" => exit_code = -1

C1_Witness == pc = "done" /\ exit_code = 0 /\ ~currency_success /\ bond_success

\* C2: in every run where the currency fetch gave an empty mapping and the bond fetch
\* returned a value, the exit status is 0 and the summary says currency FAILED, bond
\* SUCCESS.  Stated for the runs the sentence is about: the bond artifact is there
\* and the patch raised nothing.
C2_SummaryCurrencyEmptyBondValue ==
    (pc = "done" /\ DOMAIN rates = {} /\ yld.ok /\ bond_file.exists /\ bond_ret # "raise")
        => (exit_code = 0 /\ summary = <<"FAILED", "SUCCESS">>)

\* C3: the currency phase always hands over to the bond fetch, whatever it did
\* (success, nothing fetched, missing artifact, exception); no step of one phase
\* changes the other pipeline's flag; an exception leaves the pipeline's own flag
\* false; the summary is printed only after both phases and names both pipelines;
\* and no run stops before the end, so each gets to the bond fetch and the summary.
C3_BondAlwaysRuns ==
    /\ [][/\ pc = "cur_patch" => pc' = "bond_fetch"
          /\ pc \in CurrencyPhase => UNCHANGED <<bond_success, bond_file, bond_ret>>
          /\ pc \in BondPhase => UNCHANGED <<currency_success, currency_file, cur_ret>>
          /\ pc = "bond_fetch" => pc' = "bond_patch"
          /\ (pc = "cur_patch" /\ cur_ret' = "raise") => ~currency_success'
          /\ (pc = "bond_patch" /\ bond_ret' = "raise") => ~bond_success' /\ pc' = "summary"
          /\ pc = "summary" => summary' = <<Label(currency_success), Label(bond_success)>>
         ]_vars
    /\ [](summary # <<>> => pc \in {"exit", "done"})
    /\ [](pc = "done" => summary = <<Label(currency_success), Label(bond_success)>>)
    /\ [](pc = "done" \/ ENABLED Next)

C3_Witness ==
    pc = "done" /\ cur_ret = "raise" /\ bond_success /\ summary = <<"FAILED", "SUCCESS">>

\* C4: the mapping handed to the patcher holds exactly the codes whose fetch returned
\* a number, each with that number; a failed code is absent.
C4_MappingIsTheFetchedCodes ==
    [][pc = "cur_filter" =>
          rates' = [k \in {c \in DOMAIN rates : rates[c].ok} |-> rates[k]]]_vars

\* C8: a patcher called on a missing file returns false, raises nothing, creates and
\* writes nothing; the driver reports that pipeline FAILED, and the other pipeline's
\* artifact and flag are untouched by the call.
C8_MissingArtifact ==
    /\ [][/\ (CurrencyCall /\ ~currency_file.exists) =>
                /\ cur_ret' = "false" /\ currency_file' = Missing /\ ~currency_success'
                /\ UNCHANGED <<bond_file, bond_success>>
          /\ (BondCall /\ ~bond_file.exists) =>
                /\ bond_ret' = "false" /\ bond_file' = Missing /\ ~bond_success'
                /\ UNCHANGED <<currency_file, currency_success>>
         ]_vars
    /\ [](pc = "done" => /\ cur_ret = "false" => summary[1] = "FAILED"
                         /\ bond_ret = "false" => summary[2] = "FAILED")

C8_Witness ==
    /\ pc = "done" /\ ~currency_file.exists /\ cur_ret = "false"
    /\ bond_success /\ summary = <<"FAILED", "SUCCESS">>

\* Some text of s matches the block pattern.
HasBlock(s) == \E i \in 1..Len(s) : BlockMatchEnd(s, i) > 0

\* Some text of s matches the holder pattern.
HasHolder(s) == \E i \in 1..Len(s) : TsMatchEnd(s, i) > 0

\* The text between the first holder's tags (H ... E with no tag between).
HolderText(s) ==
    LET h == Min({i \in 1..Len(s) : s[i].t = "H" /\ TsMatchEnd(s, i) > 0})
    IN  SubSeq(s, h + 1, TsMatchEnd(s, h) - 1)

\* C9: on a file that exists and holds no match of the block pattern, a call that
\* returns has still rewritten the holder (if there is one) with the call's time,
\* written the file and returned true, and the driver reports SUCCESS; whenever the
\* patcher returns, the result is true exactly when the file existed, holder or not.
C9_NoBlockStillSuccess ==
    /\ [][/\ (CurrencyCall /\ currency_file.exists /\ ~HasBlock(currency_file.text)
                /\ cur_ret' # "raise") =>
                /\ cur_ret' = "true" /\ currency_success'
                /\ currency_file'.exists
                /\ HasHolder(currency_file'.text) = HasHolder(currency_file.text)
                /\ HasHolder(currency_file.text) =>
                       HolderText(currency_file'.text) = <<TsTok(clock')>>
                /\ ~HasHolder(currency_file.text) => currency_file' = currency_file
          /\ (CurrencyCall /\ cur_ret' # "raise") =>
                (cur_ret' = "true" <=> currency_file.exists)
         ]_vars
    /\ [](pc = "done" /\ cur_ret = "true" => summary[1] = "SUCCESS")

C9_Witness ==
    /\ pc = "done" /\ cur_ret = "true" /\ summary[1] = "SUCCESS"
    /\ ~HasBlock(currency_file.text)
    /\ HasHolder(currency_file.text)
    /\ HolderText(currency_file.text) \in {<<TsTok(n)>> : n \in 1..MaxClock}

(* ----------------------- the patchers called directly ------------------ *)

\* All texts of at most n tokens over an alphabet.
Texts(alphabet, n) == UNION {[1..k -> alphabet] : k \in 0..n}

CurrencyAlphabet == {Tok("K"), Tok("B"), Tok("C"), Tok("H"), Tok("E"), Tok("x")}

BondAlphabet == {Tok("Y"), Tok("7"), Tok("-"), Tok(";"), Tok("H"), Tok("E")}

RateMap(codes, price) == [k \in codes |-> Some(price)]

\* Mappings the patcher is called with on arbitrary texts: empty, and the two codes
\* of the documented scenario.
SampleMaps ==
    { RateMap({}, 1),
      [k \in {"EUR", "GBP"} |-> IF k = "EUR" THEN Some(923456) ELSE Some(791234)] }

\* Every mapping from some of the codes to the prices 1 and 2 (millionths).
AllMaps == UNION {[codes -> {Some(1), Some(2)}] : codes \in SUBSET Codes}

LibInit ==
    /\ pc = "lib"
    /\ currency_success = FALSE
    /\ bond_success = FALSE
    /\ content0 = <<>>
    /\ content = <<>>
    /\ cur_ret = "none"
    /\ bond_ret = "none"
    /\ summary = <<>>
    /\ exit_code = -1
    /\ clock = 1
    /\ ncalls = 0

\* update_currency_html(r) called directly, at most limit calls in a run.
PatchCurrency(maps, limit) ==
    /\ pc \in {"lib", "update_currency_html"}
    /\ ncalls < limit
    /\ \E r \in maps, now \in Minutes :
          /\ rates' = r
          /\ update_currency_html(r, now, "ok")
    /\ pc' = "update_currency_html"
    /\ ncalls' = ncalls + 1
    /\ UNCHANGED <<yld, currency_success, bond_success, bond_file, bond_ret,
                   summary, exit_code>>

\* update_bond_html(y) called directly.
PatchBond(yields, limit) ==
    /\ pc \in {"lib", "update_bond_html"}
    /\ ncalls < limit
    /\ \E y \in yields, now \in Minutes :
          /\ yld' = Some(y)
          /\ update_bond_html(y, now, "ok")
    /\ pc' = "update_bond_html"
    /\ ncalls' = ncalls + 1
    /\ UNCHANGED <<rates, currency_success, bond_success, currency_file, cur_ret,
                   summary, exit_code>>

\* One artifact holds an arbitrary text, and its patcher is applied to it twice in
\* succession with the same argument.
PatchInit ==
    /\ LibInit
    /\ \/ /\ currency_file \in {File(t) : t \in Texts(CurrencyAlphabet, MaxLen)}
          /\ bond_file = Missing
          /\ rates \in SampleMaps
          /\ yld = None
       \/ /\ currency_file = Missing
          /\ bond_file \in {File(t) : t \in Texts(BondAlphabet, MaxLen)}
          /\ rates = <<>>
          /\ yld \in {Some(-25), Some(250)}

PatchNext ==
    \/ currency_file.exists /\ PatchCurrency({rates}, 2)
    \/ bond_file.exists /\ PatchBond({yld.v}, 2)

SpecPatch == PatchInit /\ [][PatchNext]_vars

\* Currency artifacts that hold the assignment block: the documented scenario, the
\* documented shape, the holder first, two blocks, a block this patcher wrote, and
\* one with stray tokens around the block.
BlockFiles ==
    { File(<<Tok("K"), Tok("x"), Tok("C")>>),
      File(<<Tok("x"), Tok("K"), Tok("x"), Tok("C"), Tok("x"), Tok("H"), Tok("x"), Tok("E"), Tok("x")>>),
      File(<<Tok("H"), Tok("E"), Tok("x"), Tok("K"), Tok("x"), Tok("x"), Tok("C")>>),
      File(<<Tok("K"), Tok("x"), Tok("C"), Tok("x"), Tok("K"), Tok("H"), Tok("C")>>),
      File(BuildBlock(RateMap({"EUR", "MXN"}, 5)) \o <<Tok("H"), TsTok(1), Tok("E")>>),
      File(<<Tok("B"), Tok("x"), Tok("K"), Tok("K"), Tok("x"), Tok("C"), Tok("C")>>) }

\* One call of the patcher, with any mapping, on an artifact that holds the block.
BlockInit ==
    /\ LibInit
    /\ currency_file \in BlockFiles
    /\ bond_file = Missing
    /\ rates = <<>>
    /\ yld = None

BlockNext == PatchCurrency(AllMaps, 1)

SpecBlock == BlockInit /\ [][BlockNext]_vars

\* Bond artifacts that hold one statement "const CURRENT_YIELD = <number>;".
InitialYields == {5, 230, 1000}

BondSurroundings == {<<>>, <<Tok("x")>>, <<Tok("H"), Tok("x"), Tok("E")>>}

BondFiles ==
    {File(a \o Statement(y) \o b) : a \in BondSurroundings, b \in BondSurroundings,
                                    y \in InitialYields}

\* Any sequence of calls of the bond patcher, with any yields.
BondInit ==
    /\ LibInit
    /\ currency_file = Missing
    /\ bond_file \in BondFiles
    /\ rates = <<>>
    /\ yld = None

BondNext == PatchBond(Yields, MaxCalls)

SpecBond == BondInit /\ [][BondNext]_vars

(* -------------------------- patcher properties ------------------------ *)

CurrencyPatched == pc = "update_currency_html" /\ cur_ret = "true"

BondPatched == pc = "update_bond_html" /\ bond_ret = "true"

IsLine(tok) == tok.t = "line"

\* The text from position p to the first "};" at or after it.
BlockAt(s, p) == SubSeq(s, p, Min({q \in p..Len(s) : s[q].t = "C"} \cup {Len(s)}))

\* blk is the opening line, one line per code of r in the order of CURRENCIES, each
\* with r's value and on a line of its own, then the closing line; nothing else.
IsBlockOf(blk, r) ==
    LET lines == SelectSeq(blk, IsLine)
        codes == SelectSeq(CURRENCIES, LAMBDA c : c \in DOMAIN r)
        n     == Len(blk)
    IN  /\ n >= 4
        /\ blk[1] = Tok("K") /\ blk[2] = Tok("nl")
        /\ blk[n - 2] = Tok("nl") /\ blk[n - 1] = Tok("ind") /\ blk[n] = Tok("C")
        /\ Len(lines) = Len(codes)
        /\ \A k \in 1..Len(lines) : lines[k] = LineTok(codes[k], r[codes[k]].v)
        /\ \A k \in 1..n : blk[k].t \in {"K", "nl", ",", "ind", "line", "C"}
        /\ \A k \in 1..n : IsLine(blk[k]) => blk[k - 1] = Tok("nl") /\ blk[k + 1].t \in {",", "nl"}
        /\ \A k \in 2..(n - 1) : blk[k].t \notin {"K", "C"}
        /\ \A k \in 1..(n - 2) : blk[k].t # "ind"

Norm(s) == [i \in 1..Len(s) |-> IF s[i].t = "ts" THEN TsTok(0) ELSE s[i]]

\* A second successful call of the currency patcher with the mapping of the call
\* before it, which succeeded too.
SecondPass ==
    /\ CurrencyPatched
    /\ pc' = "update_currency_html" /\ ncalls' = ncalls + 1 /\ cur_ret' = "true"
    /\ rates' = rates

\* The block built from r is one match of the block pattern, from its first token
\* to its last.
BlockIsMatched(r) == BlockMatchEnd(BuildBlock(r), 1) = Len(BuildBlock(r))

\* No time stamp holder of s has a "}" in its text.
HolderClean(s) ==
    \A i \in 1..Len(s) : TsMatchEnd(s, i) > 0 =>
        \A k \in (i + 1)..(TsMatchEnd(s, i) - 1) : ~HasBrace(s[k])

\* C6 as stated: for every artifact content and every mapping, the file after the
\* second of two passes with the same mapping equals the file after the first, time
\* stamps apart, and the block the first pass wrote is matched by the pattern.
C6_Idempotent ==
    [][SecondPass => /\ Norm(currency_file'.text) = Norm(currency_file.text)
                     /\ BlockIsMatched(rates)]_vars

\* C6 amended: the same, for every artifact content whose time stamp holder has no
\* "}" in its text (content0 is the text the first pass read).
C6_IdempotentCleanHolder ==
    [][(SecondPass /\ HolderClean(content0)) =>
            /\ Norm(currency_file'.text) = Norm(currency_file.text)
            /\ BlockIsMatched(rates)]_vars

\* The second pass, with the empty mapping and a later time, has read and replaced
\* the block the first pass wrote.
C6_Witness ==
    /\ CurrencyPatched /\ ncalls = 2 /\ DOMAIN rates = {}
    /\ \E i \in 1..Len(content0) :
          /\ BlockMatchEnd(content0, i) > 0
          /\ SubSeq(content0, i, BlockMatchEnd(content0, i)) = BuildBlock(rates)
    /\ \E i \in 1..Len(content0) : content0[i] = TsTok(1)
    /\ \E i \in 1..Len(currency_file.text) : currency_file.text[i] = TsTok(2)

\* The matches of a pattern in s from position i on: leftmost first, not overlapping.
RECURSIVE Occurrences(_, _, _)
Occurrences(pat, s, i) ==
    IF i > Len(s) THEN {}
    ELSE IF MatchEnd(pat, s, i) > 0
         THEN {i} \cup Occurrences(pat, s, MatchEnd(pat, s, i) + 1)
         ELSE Occurrences(pat, s, i + 1)

FirstOccurrence(pat, s) ==
    IF Occurrences(pat, s, 1) = {} THEN {} ELSE {Min(Occurrences(pat, s, 1))}

\* By how much the text grows when each match starting in S becomes n tokens.
RECURSIVE Growth(_, _, _, _)
Growth(pat, n, s, S) ==
    IF S = {} THEN 0
    ELSE LET i == Min(S)
         IN  (n - (MatchEnd(pat, s, i) - i + 1)) + Growth(pat, n, s, S \ {i})

\* t is s with the matches starting in S replaced by n tokens each, and every token
\* outside those matches kept, in place.
OnlyChanged(pat, n, s, t, S) ==
    /\ Len(t) = Len(s) + Growth(pat, n, s, S)
    /\ \A k \in 1..Len(s) :
          (\A i \in S : k < i \/ k > MatchEnd(pat, s, i)) =>
              t[k + Growth(pat, n, s, {i \in S : MatchEnd(pat, s, i) < k})] = s[k]

\* The matches starting in S hold the replacement in t.
Replaced(pat, repl, s, t, S) ==
    \A i \in S :
        LET at == i + Growth(pat, Len(Expand(pat, repl, s, i, MatchEnd(pat, s, i))), s,
                             {j \in S : j < i})
            new == Expand(pat, repl, s, i, MatchEnd(pat, s, i))
        IN  SubSeq(t, at, at + Len(new) - 1) = new

Contains(s, sub) ==
    \E p \in 1..(Len(s) - Len(sub) + 1) : SubSeq(s, p, p + Len(sub) - 1) = sub

\* C10: on an artifact that held one statement at the start, after every call of the
\* bond patcher that returned true the artifact holds the statement with that call's
\* yield, whatever yields (negative ones too) the calls before it wrote.
C10_StatementHasLastYield ==
    BondPatched => Contains(bond_file.text, Statement(yld.v))

====
